---- MODULE Spec2Model ----
(***************************************************************************)
(* Model of x-messager-puppeteer: the feed Collector (the scroll loop of   *)
(* fetchSingleUser / scrapeUserTweets) and the multi-user Orchestrator     *)
(* (fetchMultipleUser) in its two forms: retry options passed per call     *)
(* (src/src/base.ts) and retry options attached to the context             *)
(* (src/src/types.ts).                                                     *)
(***************************************************************************)
EXTENDS Integers, Sequences, FiniteSets, TLC

(***************************************************************************)
(* Bounds of the model.                                                    *)
(***************************************************************************)
\* longest userConfigs list passed to fetchMultipleUser
MaxJobs == 2
\* largest explicit options.maxRetries (the default is tried as well)
MaxRetriesOpt == 2

\* the least maxRetries a caller passes: the option is not validated
MinRetriesOpt == -1
\* most articles of the timeline a Collector run is served
MaxTimeline == 4
\* most articles a page shows to one attempt started by fetchMultipleUser
MaxFeedLen == 1
\* most posts of a result whose latestTweetTime is computed on its own
MaxTweets == 3
\* most posts a page that loads a further post with every scroll can load
MaxLive == 102
\* most articles of the timeline one attempt of a retried job is served
MaxJobTimeline == 2

(***************************************************************************)
(* Values of the JavaScript run time.                                      *)
(***************************************************************************)
\* Number.NaN, the getTime() of an invalid Date
NaN == -1
\* a datetime attribute that Date cannot parse (the '' of `|| ''`)
BadTime == -2
\* the empty startTime string, falsy in `startTime ? ... : 0`
EmptyStr == -3
\* options.maxRetries left undefined
Undefined == -4
\* latestTweetTime: null
Null == -5

\* new Date(s).getTime(): an ISO string is written as its epoch value
GetTime(s) == IF s = BadTime THEN NaN ELSE s

\* a < b on numbers: every comparison with NaN is false
Lt(a, b) == a # NaN /\ b # NaN /\ a < b

\* a >= b on numbers
Ge(a, b) == a # NaN /\ b # NaN /\ a >= b

(***************************************************************************)
(* The articles a timeline can show.  id is the permalink href; time is    *)
(* the datetime attribute; isPinned the socialContext flag.  The boundary  *)
(* used by the jobs is Boundary: ids 3, 4, 5 are older and not pinned, 6   *)
(* is older and pinned, 2 is exactly on the boundary, 1 is newer, 7 has a  *)
(* datetime that does not parse.                                           *)
(***************************************************************************)
Boundary == 2

Articles ==
  { [id |-> 1, time |-> Boundary + 1, isPinned |-> FALSE],
    [id |-> 2, time |-> Boundary, isPinned |-> FALSE],
    [id |-> 3, time |-> Boundary - 1, isPinned |-> FALSE],
    [id |-> 4, time |-> Boundary - 1, isPinned |-> FALSE],
    [id |-> 5, time |-> Boundary - 2, isPinned |-> FALSE],
    [id |-> 6, time |-> Boundary - 2, isPinned |-> TRUE],
    [id |-> 7, time |-> BadTime, isPinned |-> FALSE] }

ArticleIds == { a.id : a \in Articles }

\* the articles on the pages the attempts of fetchMultipleUser's tasks see
FeedIds == { a.id : a \in { b \in Articles : b.time = Boundary + 1 } }

\* the n-th post a page loads beyond the articles above: newer than the
\* boundary, not pinned
LiveId(n) == Cardinality(ArticleIds) + n

\* a remote image reference: ext is the extension of its URL's path, ""
\* when the path has none
UrlPng == [kind |-> "remote", name |-> "a", ext |-> ".png"]

UrlBare == [kind |-> "remote", name |-> "b", ext |-> ""]

ImageUrls(n) == [k \in 1..n |-> IF k % 2 = 1 THEN UrlPng ELSE UrlBare]

\* the non-avatar images of article i, in the order of the page
ArticleImages(i) == ImageUrls(i % 3)

ArticleOf(i) ==
  IF i \in ArticleIds THEN CHOOSE a \in Articles : a.id = i
  ELSE [id |-> i, time |-> Boundary + 1, isPinned |-> FALSE]

\* sequences of at most n elements of S
SeqsUpTo(S, n) == UNION { [1..k -> S] : k \in 0..n }

Users == {"alice", "bob"}

StartTimes == {EmptyStr, Boundary}

\* the entries a userConfigs list is made of
JobConfigs ==
  { [userId |-> "alice", startTime |-> Boundary],
    [userId |-> "bob", startTime |-> EmptyStr] }

(***************************************************************************)
(* page.$$eval('article[data-testid="tweet"]', ...): the records built     *)
(* for the rendered articles.                                              *)
(***************************************************************************)
\* articles of other kinds: one without a link to a status, one without a
\* link to the target user (a repost), one without a time element
NoLinkId == 201

ForeignId == 202

NoTimeId == 203

\* article.querySelector('a[href*="/status/"]')
HasStatusLink(i) == i # NoLinkId

\* article.querySelector(`a[href="/${args.targetUserId}"]`)
HasUserLink(i, targetUserId) == i # ForeignId

\* article.querySelector('time[datetime]')
HasTimeElement(i) == i # NoTimeId

Extract(ids, targetUserId) ==
  LET Kept(i) == HasStatusLink(i) /\ HasUserLink(i, targetUserId) /\ HasTimeElement(i)
      kept == SelectSeq(ids, Kept)
  IN [k \in 1..Len(kept) |->
        [id |-> kept[k], userId |-> targetUserId,
         time |-> ArticleOf(kept[k]).time, imageUrls |-> ArticleImages(kept[k]),
         isPinned |-> ArticleOf(kept[k]).isPinned]]

(***************************************************************************)
(* The Collector: state of one run.                                        *)
(*   discovered, addedIds : history of the run (the newly seen candidates  *)
(*   in discovery order, and the ids of the appended posts)                *)
(***************************************************************************)
maxScrollAttempts == 100

stopStreak == 3

idleStop == 3

StartTimeMs(startTime) == IF startTime = EmptyStr THEN 0 ELSE GetTime(startTime)

InitRun ==
  [tweets |-> <<>>, tweetIds |-> {}, scrollAttempts |-> 0,
   noNewTweetsCount |-> 0, hasReachedStartTime |-> FALSE,
   discovered |-> <<>>, addedIds |-> <<>>]

\* the dedup check lost: no id is ever found in the set
HasIdNever(tweetIds, id) == FALSE

\* tweetIds.has(tweet.id)
HasId(tweetIds, id) == id \in tweetIds

\* the test of startTime is lost: a run without a start time filters with
\* the boundary of the other runs
IsOldIgnoresEmpty(tweet, startTime) ==
  Lt(GetTime(tweet.time),
     IF startTime = EmptyStr THEN GetTime(Boundary) ELSE StartTimeMs(startTime))

\* startTime && tweetTime < startTimeMs
IsOld(tweet, startTime) ==
  startTime # EmptyStr /\ Lt(GetTime(tweet.time), StartTimeMs(startTime))

\* the for loop without its break: the third stale post sets the flag and
\* the loop goes on
RECURSIVE ForEachTweetNoBreak(_, _, _, _, _)
ForEachTweetNoBreak(run, loc, newTweets, k, startTime) ==
  IF k > Len(newTweets) THEN [run |-> run, loc |-> loc]
  ELSE
    LET tweet == newTweets[k] IN
    IF tweet.id \in run.tweetIds
    THEN ForEachTweetNoBreak(run, loc, newTweets, k + 1, startTime)
    ELSE
      LET seen == [run EXCEPT !.tweetIds = @ \cup {tweet.id},
                              !.discovered = Append(@, tweet.id)]
      IN
      IF startTime # EmptyStr /\ Lt(GetTime(tweet.time), StartTimeMs(startTime))
      THEN
        IF tweet.isPinned
        THEN ForEachTweetNoBreak(seen, loc, newTweets, k + 1, startTime)
        ELSE
          LET loc2 == [loc EXCEPT !.nonPinnedOldTweetCount = @ + 1] IN
          ForEachTweetNoBreak(
            IF loc2.nonPinnedOldTweetCount >= stopStreak
            THEN [seen EXCEPT !.hasReachedStartTime = TRUE] ELSE seen,
            loc2, newTweets, k + 1, startTime)
      ELSE
        ForEachTweetNoBreak(
          [seen EXCEPT !.tweets = Append(@, [userId |-> tweet.userId, time |-> tweet.time,
                                             imageUrls |-> tweet.imageUrls]),
                       !.addedIds = Append(@, tweet.id)],
          [loc EXCEPT !.nonPinnedOldTweetCount = 0, !.addedCount = @ + 1],
          newTweets, k + 1, startTime)

\* the for loop without the reset of the stale count by a post in scope
RECURSIVE ForEachTweetNoReset(_, _, _, _, _)
ForEachTweetNoReset(run, loc, newTweets, k, startTime) ==
  IF k > Len(newTweets) THEN [run |-> run, loc |-> loc]
  ELSE
    LET tweet == newTweets[k] IN
    IF tweet.id \in run.tweetIds
    THEN ForEachTweetNoReset(run, loc, newTweets, k + 1, startTime)
    ELSE
      LET seen == [run EXCEPT !.tweetIds = @ \cup {tweet.id},
                              !.discovered = Append(@, tweet.id)]
      IN
      IF startTime # EmptyStr /\ Lt(GetTime(tweet.time), StartTimeMs(startTime))
      THEN
        IF tweet.isPinned
        THEN ForEachTweetNoReset(seen, loc, newTweets, k + 1, startTime)
        ELSE
          LET loc2 == [loc EXCEPT !.nonPinnedOldTweetCount = @ + 1] IN
          IF loc2.nonPinnedOldTweetCount >= stopStreak
          THEN [run |-> [seen EXCEPT !.hasReachedStartTime = TRUE], loc |-> loc2]
          ELSE ForEachTweetNoReset(seen, loc2, newTweets, k + 1, startTime)
      ELSE
        ForEachTweetNoReset(
          [seen EXCEPT !.tweets = Append(@, [userId |-> tweet.userId, time |-> tweet.time,
                                             imageUrls |-> tweet.imageUrls]),
                       !.addedIds = Append(@, tweet.id)],
          [loc EXCEPT !.addedCount = @ + 1],
          newTweets, k + 1, startTime)

\* the body of `for (const tweet of newTweets)`, from candidate k on;
\* loc = [addedCount, nonPinnedOldTweetCount] are the round's locals
RECURSIVE ForEachTweet(_, _, _, _, _)
ForEachTweet(run, loc, newTweets, k, startTime) ==
  IF k > Len(newTweets) THEN [run |-> run, loc |-> loc]
  ELSE
    LET tweet == newTweets[k] IN
    IF HasId(run.tweetIds, tweet.id)
    THEN ForEachTweet(run, loc, newTweets, k + 1, startTime)
    ELSE
      LET seen == [run EXCEPT !.tweetIds = @ \cup {tweet.id},
                              !.discovered = Append(@, tweet.id)]
      IN
      IF IsOld(tweet, startTime)
      THEN
        IF tweet.isPinned
        THEN ForEachTweet(seen, loc, newTweets, k + 1, startTime)
        ELSE
          LET loc2 == [loc EXCEPT !.nonPinnedOldTweetCount = @ + 1] IN
          IF loc2.nonPinnedOldTweetCount >= stopStreak
          THEN [run |-> [seen EXCEPT !.hasReachedStartTime = TRUE], loc |-> loc2]
          ELSE ForEachTweet(seen, loc2, newTweets, k + 1, startTime)
      ELSE
        ForEachTweet(
          [seen EXCEPT !.tweets = Append(@, [userId |-> tweet.userId, time |-> tweet.time,
                                             imageUrls |-> tweet.imageUrls]),
                       !.addedIds = Append(@, tweet.id)],
          [loc EXCEPT !.nonPinnedOldTweetCount = 0, !.addedCount = @ + 1],
          newTweets, k + 1, startTime)

\* the idle streak is never reset
IdleCountNoReset(addedCount, noNewTweetsCount) ==
  IF addedCount = 0 THEN noNewTweetsCount + 1 ELSE noNewTweetsCount

\* if (addedCount === 0) noNewTweetsCount++ else noNewTweetsCount = 0
IdleCount(addedCount, noNewTweetsCount) ==
  IF addedCount = 0 THEN noNewTweetsCount + 1 ELSE 0

\* the idle bookkeeping looks at the newly seen candidates of the round,
\* not at the posts it appended
ProcessRoundCountsSeen(run, newTweets, startTime) ==
  LET r == ForEachTweet(run, [addedCount |-> 0, nonPinnedOldTweetCount |-> 0],
                        newTweets, 1, startTime)
      seenCount == Len(r.run.discovered) - Len(run.discovered)
      idle == IdleCount(seenCount, r.run.noNewTweetsCount)
      run2 == [r.run EXCEPT !.noNewTweetsCount = idle]
  IN
  IF seenCount = 0 /\ idle >= idleStop THEN [run |-> run2, stop |-> TRUE]
  ELSE IF run2.hasReachedStartTime THEN [run |-> run2, stop |-> TRUE]
  ELSE [run |-> [run2 EXCEPT !.scrollAttempts = @ + 1], stop |-> FALSE]

\* one pass of the while body after the extraction: the for loop, the
\* idle bookkeeping, the scroll.  stop is TRUE when the pass ends in a break.
ProcessRound(run, newTweets, startTime) ==
  LET r == ForEachTweet(run, [addedCount |-> 0, nonPinnedOldTweetCount |-> 0],
                        newTweets, 1, startTime)
      idle == IdleCount(r.loc.addedCount, r.run.noNewTweetsCount)
      run2 == [r.run EXCEPT !.noNewTweetsCount = idle]
  IN
  IF r.loc.addedCount = 0 /\ idle >= idleStop THEN [run |-> run2, stop |-> TRUE]
  ELSE IF run2.hasReachedStartTime THEN [run |-> run2, stop |-> TRUE]
  ELSE [run |-> [run2 EXCEPT !.scrollAttempts = @ + 1], stop |-> FALSE]

\* the loop without its cap
LoopGuardNoCap(run) == ~run.hasReachedStartTime

\* while (scrollAttempts < maxScrollAttempts && !hasReachedStartTime)
LoopGuard(run) ==
  run.scrollAttempts < maxScrollAttempts /\ ~run.hasReachedStartTime

(***************************************************************************)
(* A whole Collector run on a page that shows newTweets from the start     *)
(* and loads nothing more: the value a successful attempt resolves to.     *)
(***************************************************************************)
RECURSIVE RunLoop(_, _, _)
RunLoop(run, newTweets, startTime) ==
  IF ~LoopGuard(run) THEN run.tweets
  ELSE LET r == ProcessRound(run, newTweets, startTime) IN
       IF r.stop THEN r.run.tweets ELSE RunLoop(r.run, newTweets, startTime)

ScrapeStatic(ids, userId, startTime) ==
  RunLoop(InitRun, Extract(ids, userId), startTime)

(***************************************************************************)
(* The Orchestrator: fetchMultipleUser.                                    *)
(***************************************************************************)
\* a maxRetries below 1 is taken for 1
MaxRetriesAtLeastOne(options) ==
  IF options.maxRetries = Undefined THEN 3
  ELSE IF options.maxRetries < 1 THEN 1 ELSE options.maxRetries

\* options?.maxRetries ?? 3
MaxRetries(options) == IF options.maxRetries = Undefined THEN 3 ELSE options.maxRetries

\* the retry loop stops one attempt early
LoopContinuesShort(attempt, maxRetries) == attempt < maxRetries

\* for (let attempt = 1; attempt <= maxRetries; attempt++)
LoopContinues(attempt, maxRetries) == attempt <= maxRetries

\* the hook is skipped before the last retry
CallsHookLate(attempt, maxRetries, options) ==
  attempt < maxRetries - 1 /\ options.beforeRetry

\* if (attempt < maxRetries && beforeRetry)
CallsHook(attempt, maxRetries, options) ==
  attempt < maxRetries /\ options.beforeRetry

\* the times [...tweets].sort((a, b) => getTime(b) - getTime(a))[0].time can
\* be.  The comparator yields NaN, taken as 0, when a time does not parse:
\* it is then consistent only if all parseable times are equal, and with
\* an inconsistent comparator the order is implementation-defined.  A
\* consistent comparator gives the first of the latest posts (stable sort).
SortedFirstTimes(tweets) ==
  LET ms(k) == GetTime(tweets[k].time)
      D == DOMAIN tweets
      consistent ==
        \/ \A k \in D : ms(k) # NaN
        \/ \A j, k \in D : ms(j) = NaN \/ ms(k) = NaN \/ ms(j) = ms(k)
      top == { k \in D : \A j \in D : ~Lt(ms(k), ms(j)) }
      first == CHOOSE k \in top : \A j \in top : k <= j
  IN IF consistent THEN {tweets[first].time}
     ELSE { tweets[k].time : k \in D }

\* let latestTweetTime = null; if (tweets.length > 0) ...
LatestTweetTimes(tweets) ==
  IF Len(tweets) > 0 THEN SortedFirstTimes(tweets) ELSE {Null}

EmptyResult(userId) == [userId |-> userId, tweets |-> <<>>, latestTweetTime |-> Null]

\* the values are delivered in the order the tasks settled
PromiseAllBySettling(values, settled) == [k \in DOMAIN settled |-> values[settled[k]]]

\* Promise.all(fetchTasks): the values in the order of the tasks
PromiseAll(values, settled) == [k \in DOMAIN values |-> values[k]]

\* one task of userConfigs.map(async config => ...): pc is where it is
\* suspended, attempt and lastError its locals, value what it resolved to;
\* attemptsMade, errors, hookCalls, hookArgs, hookThrew, succeeded and
\* collected record what happened to it (errors the errors of its failed
\* attempts and hookArgs the arguments of the calls of beforeRetry, in
\* order); index is its place in userConfigs, page the page
\* its running attempt opened, pagesOpened the number of pages it opened
NoPage == <<0, 0>>

\* context.newPage() in attempt n of task i: a page object no other call
\* of newPage returns
NewPage(i, n) == <<i, n>>

\* one page, opened once, serves every attempt of every task
SharedPage(i, n) == <<1, 1>>

\* the page the Collector opens for attempt n of task i
AttemptPage(i, n) == NewPage(i, n)

NewTask(i) ==
  [pc |-> "new", attempt |-> 0, lastError |-> "none", value |-> EmptyResult("none"),
   attemptsMade |-> 0, errors |-> <<>>, hookCalls |-> 0, hookArgs |-> <<>>,
   hookThrew |-> FALSE,
   succeeded |-> FALSE, collected |-> <<>>,
   index |-> i, page |-> NoPage, pagesOpened |-> 0]

\* the session form without the catch of fetchMultipleUser: the error of
\* fetchSingleUser leaves the task
ExhaustedSessionRaises(task, config, form) ==
  IF form = "perCall"
  THEN [task EXCEPT !.pc = "done", !.value = EmptyResult(config.userId)]
  ELSE [task EXCEPT !.pc = "rejected"]

\* the loop is over without a return: base.ts returns the empty result;
\* in types.ts fetchSingleUser throws lastError and the task is left in
\* the catch of fetchMultipleUser
Exhausted(task, config, form) ==
  IF form = "perCall"
  THEN [task EXCEPT !.pc = "done", !.value = EmptyResult(config.userId)]
  ELSE [task EXCEPT !.pc = "failed"]

\* the loop test before attempt n, and the call of the Collector
BeginAttempt(task, n, config, options, form) ==
  IF LoopContinues(n, MaxRetries(options))
  THEN [task EXCEPT !.pc = "scraping", !.attempt = n, !.attemptsMade = @ + 1,
                    !.page = AttemptPage(task.index, n), !.pagesOpened = @ + 1]
  ELSE Exhausted([task EXCEPT !.attempt = n], config, form)

\* an attempt that resolved to no tweets is taken for a failure, and the
\* task goes on to the next attempt
SucceededRetriesEmpty(task, config, tweets, latest) ==
  IF tweets = <<>>
  THEN [task EXCEPT !.succeeded = TRUE, !.attempt = @ + 1, !.attemptsMade = @ + 1]
  ELSE [task EXCEPT !.pc = "done", !.succeeded = TRUE, !.collected = tweets,
                    !.page = NoPage,
                    !.value = [userId |-> config.userId, tweets |-> tweets,
                               latestTweetTime |-> latest]]

\* the Collector resolved to tweets: the result of the task
Succeeded(task, config, tweets, latest) ==
  [task EXCEPT !.pc = "done", !.succeeded = TRUE, !.collected = tweets,
               !.page = NoPage,
               !.value = [userId |-> config.userId, tweets |-> tweets,
                          latestTweetTime |-> latest]]

\* the hook is given the 0-based number of the failed attempt
FailedCountsFromZero(task, error, config, options, form) ==
  LET t == [task EXCEPT !.lastError = error, !.page = NoPage,
                        !.errors = Append(@, error)] IN
  IF CallsHook(t.attempt, MaxRetries(options), options)
  THEN [t EXCEPT !.pc = "hook", !.hookCalls = @ + 1,
                 !.hookArgs = Append(@, <<config.userId, t.attempt - 1, error>>)]
  ELSE BeginAttempt(t, t.attempt + 1, config, options, form)

\* catch (error) of the attempt: call the hook or go on with the loop
Failed(task, error, config, options, form) ==
  LET t == [task EXCEPT !.lastError = error, !.page = NoPage,
                        !.errors = Append(@, error)] IN
  IF CallsHook(t.attempt, MaxRetries(options), options)
  THEN [t EXCEPT !.pc = "hook", !.hookCalls = @ + 1,
                 !.hookArgs = Append(@, <<config.userId, t.attempt, error>>)]
  ELSE BeginAttempt(t, t.attempt + 1, config, options, form)

\* the hook's error leaves the task: the task rejects
HookThrowEscapes(task, config, options, form) ==
  [task EXCEPT !.pc = "rejected", !.hookThrew = TRUE]

\* the hook's error ends the retry loop
HookThrowAborts(task, config, options, form) ==
  [task EXCEPT !.pc = "done", !.value = EmptyResult(config.userId),
               !.hookThrew = TRUE]

\* catch (hookError): logged, and the loop goes on
AfterHookThrows(task, config, options, form) ==
  BeginAttempt([task EXCEPT !.hookThrew = TRUE],
               task.attempt + 1, config, options, form)

(***************************************************************************)
(* The page of a run: timeline is what the platform serves for the user,   *)
(* hi the number of its articles rendered as article elements so far.  A   *)
(* scroll followed by the settle delay may render further articles; the    *)
(* ones rendered before are extracted again by the next $$eval.  On a live *)
(* page the platform has a further post for every scroll: the scroll may   *)
(* append it to the timeline and render everything.  marker says whether   *)
(* the page carries the empty_state_header_text element.                   *)
(***************************************************************************)
\* the profile page of an author that does not exist: the empty-state
\* marker and no article
MissingPage == [timeline |-> <<>>, hi |-> 0, live |-> FALSE, marker |-> TRUE]

Rendered(page) == SubSeq(page.timeline, 1, page.hi)

Scrolled(page) ==
  { [page EXCEPT !.hi = h] : h \in page.hi..Len(page.timeline) }
  \cup
  IF page.live /\ Len(page.timeline) < MaxLive
  THEN { [page EXCEPT !.timeline = Append(@, LiveId(Len(@) + 1)),
                      !.hi = Len(page.timeline) + 1] }
  ELSE {}

(***************************************************************************)
(* State.                                                                  *)
(*  Collector run (fetchSingleUser of base.ts, scrapeUserTweets of         *)
(*  types.ts): cpc is the position in the function, cArgs its arguments,   *)
(*  page the page it opened, run the locals of the scroll loop, pageOpen   *)
(*  whether the page is open, cResult what the run returned or threw.      *)
(***************************************************************************)
VARIABLES cpc, cArgs, page, run, pageOpen, cResult,
          form, userConfigs, options, tasks, settled, call,
          sortCall, job, mat

collectorVars == <<cpc, cArgs, page, run, pageOpen, cResult>>

orchestratorVars == <<form, userConfigs, options, tasks, settled, call>>

sortVars == <<sortCall>>

jobVars == <<job>>

matVars == <<mat>>

vars == <<collectorVars, orchestratorVars, sortVars, jobVars, matVars>>

\* what a run can throw: the author-not-found error of the pre-check, and
\* the rejections of page.goto, of waitForSelector, and of $$eval / evaluate
Errors == {"ViewportFailed", "UserNotFound", "NavigationFailed", "WaitTimeout",
           "RenderingFailed"}

NoResult == [kind |-> "none"]

\* a longer page: two posts in scope, the older one first, three stale
\* ones, then a post newer than the boundary
ExampleTimeline == <<2, 1, 3, 4, 5, LiveId(1)>>

\* a page with articles that are no posts of the user, before a post in
\* scope
SkipTimeline == <<NoLinkId, ForeignId, NoTimeId, 1>>

\* the call, up to context.newPage() resolving: the page is open
CollectorStart ==
  /\ cpc = "goto"
  /\ cArgs \in [userId : {"alice"}, startTime : StartTimes]
  /\ page \in [timeline : SeqsUpTo(ArticleIds, MaxTimeline) \cup {ExampleTimeline, SkipTimeline},
               hi : {0}, live : {FALSE}, marker : {FALSE}]
             \cup {MissingPage}
  /\ run = InitRun
  /\ pageOpen = TRUE
  /\ cResult = NoResult

\* the catch / finally of the run: page.close() resolves, the error is
\* rethrown
Throw(error) ==
  /\ cpc' = "thrown"
  /\ pageOpen' = FALSE
  /\ cResult' = [kind |-> "error", error |-> error]
  /\ UNCHANGED <<cArgs, page, run, orchestratorVars, sortVars, jobVars, matVars>>

\* page.setViewport rejects: the await is before the try, so neither the
\* catch nor the finally runs and nothing closes the page
ViewportFails ==
  /\ cpc = "goto"
  /\ cpc' = "thrown"
  /\ cResult' = [kind |-> "error", error |-> "ViewportFailed"]
  /\ UNCHANGED <<cArgs, page, run, pageOpen, orchestratorVars, sortVars, jobVars, matVars>>

\* page.setViewport and page.goto resolve, the first sleep passes
GotoOk ==
  /\ cpc = "goto"
  /\ cpc' = "check"
  /\ UNCHANGED <<cArgs, page, run, pageOpen, cResult, orchestratorVars, sortVars, jobVars, matVars>>

\* page.goto rejects (navigation timeout)
GotoFails ==
  /\ cpc = "goto"
  /\ Throw("NavigationFailed")

\* the marker is found, and the run throws the error of the readiness wait
UserNotFoundAsTimeout ==
  /\ cpc = "check"
  /\ page.marker
  /\ Throw("WaitTimeout")

\* page.$ resolves to the empty_state_header_text element: throw
UserNotFound ==
  /\ cpc = "check"
  /\ page.marker
  /\ Throw("UserNotFound")

\* page.$ resolves to null: go on to the readiness wait
MarkerAbsent ==
  /\ cpc = "check"
  /\ ~page.marker
  /\ cpc' = "wait"
  /\ UNCHANGED <<cArgs, page, run, pageOpen, cResult, orchestratorVars, sortVars, jobVars, matVars>>

\* page.$ rejects: .catch(() => null) makes empty null, whatever the page
\* shows, and the run goes on to the readiness wait
MarkerQueryFails ==
  /\ cpc = "check"
  /\ cpc' = "wait"
  /\ UNCHANGED <<cArgs, page, run, pageOpen, cResult, orchestratorVars, sortVars, jobVars, matVars>>

\* waitForSelector finds an article: the first part of the timeline, one
\* article at least, is rendered
TweetsLoaded ==
  /\ cpc = "wait"
  /\ cpc' = "loop"
  /\ page' \in { p \in Scrolled(page) : p.hi >= 1 }
  /\ UNCHANGED <<cArgs, run, pageOpen, cResult, orchestratorVars, sortVars, jobVars, matVars>>

\* waitForSelector times out
LoadTimeout ==
  /\ cpc = "wait"
  /\ Throw("WaitTimeout")

\* one iteration of the while loop on what the page shows now; when the
\* iteration breaks or the loop condition fails the page is closed and
\* the tweets are returned, otherwise the page is scrolled
Round ==
  /\ cpc = "loop"
  /\ LoopGuard(run)
  /\ LET r == ProcessRound(run, Extract(Rendered(page), cArgs.userId), cArgs.startTime) IN
     /\ run' = r.run
     /\ IF r.stop \/ ~LoopGuard(r.run)
        THEN /\ cpc' = "returned"
             /\ pageOpen' = FALSE
             /\ cResult' = [kind |-> "tweets", tweets |-> r.run.tweets]
             /\ page' = page
        ELSE /\ page' \in Scrolled(page)
             /\ UNCHANGED <<cpc, pageOpen, cResult>>
  /\ UNCHANGED <<cArgs, orchestratorVars, sortVars, jobVars, matVars>>

\* page.$$eval or the scroll's page.evaluate rejects
RoundFails ==
  /\ cpc = "loop"
  /\ LoopGuard(run)
  /\ Throw("RenderingFailed")

CollectorNext ==
  \/ ViewportFails
  \/ GotoOk
  \/ GotoFails
  \/ UserNotFound
  \/ MarkerAbsent
  \/ MarkerQueryFails
  \/ TweetsLoaded
  \/ LoadTimeout
  \/ Round
  \/ RoundFails

(***************************************************************************)
(*  One call of fetchMultipleUser: form says which source form runs (the   *)
(*  retry loop in fetchMultipleUser, or in fetchSingleUser), userConfigs   *)
(*  and options are the arguments (options on the context in the second    *)
(*  form), tasks the fetchTasks, settled the order in which they settled,  *)
(*  call the state of the promise fetchMultipleUser returned.              *)
(***************************************************************************)
Jobs == DOMAIN userConfigs

\* no Collector run of its own: the attempts of the tasks are whole runs
CollectorUnused ==
  /\ cpc = "unused"
  /\ cArgs = [userId |-> "none", startTime |-> EmptyStr]
  /\ page = [timeline |-> <<>>, hi |-> 0, live |-> FALSE, marker |-> FALSE]
  /\ run = InitRun
  /\ pageOpen = FALSE
  /\ cResult = NoResult

\* no call of fetchMultipleUser
OrchestratorUnused ==
  /\ form = "none"
  /\ userConfigs = <<>>
  /\ options = [maxRetries |-> Undefined, beforeRetry |-> FALSE]
  /\ tasks = <<>>
  /\ settled = <<>>
  /\ call = [state |-> "none"]

\* the tasks that are settled right after the synchronous part of the call
SettledAtOnce(ts) ==
  LET RECURSIVE Upto(_)
      Upto(k) == IF k = 0 THEN <<>>
                 ELSE IF ts[k].pc = "done" THEN Append(Upto(k - 1), k) ELSE Upto(k - 1)
  IN Upto(Len(ts))

\* fetchMultipleUser(context, userConfigs, options) up to its await: every
\* task has run to its first suspension
OrchestratorInit ==
  /\ form \in {"perCall", "session"}
  /\ userConfigs \in SeqsUpTo(JobConfigs, MaxJobs)
  /\ options \in [maxRetries : {Undefined} \cup MinRetriesOpt..MaxRetriesOpt, beforeRetry : BOOLEAN]
  /\ tasks = [i \in Jobs |-> BeginAttempt(NewTask(i), 1, userConfigs[i], options, form)]
  /\ settled = SettledAtOnce(tasks)
  /\ call = [state |-> "pending"]

\* the attempt counter is shared by the tasks: a step of task i sets it
\* for every task
SetTaskSharedAttempt(i, t) ==
  /\ tasks' = [k \in Jobs |-> IF k = i THEN t ELSE [tasks[k] EXCEPT !.attempt = t.attempt]]
  /\ settled' = IF t.pc \in {"done", "rejected"} THEN Append(settled, i) ELSE settled
  /\ UNCHANGED <<form, userConfigs, options, call, collectorVars, sortVars, jobVars, matVars>>

\* a step of task i: t is its new state
SetTask(i, t) ==
  /\ tasks' = [tasks EXCEPT ![i] = t]
  /\ settled' = IF t.pc \in {"done", "rejected"} THEN Append(settled, i) ELSE settled
  /\ UNCHANGED <<form, userConfigs, options, call, collectorVars, sortVars, jobVars, matVars>>

\* the Collector call of task i resolves
AttemptSucceeds(i) ==
  /\ tasks[i].pc = "scraping"
  /\ \E ids \in SeqsUpTo(FeedIds, MaxFeedLen) :
       LET tweets == ScrapeStatic(ids, userConfigs[i].userId, userConfigs[i].startTime) IN
       \E latest \in LatestTweetTimes(tweets) :
         SetTask(i, Succeeded(tasks[i], userConfigs[i], tweets, latest))

\* the Collector call of task i rejects; which error it is decides no
\* branch of fetchMultipleUser
AttemptFails(i) ==
  /\ tasks[i].pc = "scraping"
  /\ \E error \in {"Timeout"} :
       SetTask(i, Failed(tasks[i], error, userConfigs[i], options, form))

\* await beforeRetry(...) resolves
HookReturns(i) ==
  /\ tasks[i].pc = "hook"
  /\ SetTask(i, BeginAttempt(tasks[i], tasks[i].attempt + 1, userConfigs[i], options, form))

\* beforeRetry throws or its promise rejects
HookThrows(i) ==
  /\ tasks[i].pc = "hook"
  /\ SetTask(i, AfterHookThrows(tasks[i], userConfigs[i], options, form))

\* types.ts: the catch of fetchMultipleUser around fetchSingleUser
Caught(task, config) == [task EXCEPT !.pc = "done", !.value = EmptyResult(config.userId)]

CatchFailure(i) ==
  /\ tasks[i].pc = "failed"
  /\ SetTask(i, Caught(tasks[i], userConfigs[i]))

\* the call returns as soon as one task is resolved (the tasks raced)
SettleOnFirst ==
  /\ call.state = "pending"
  /\ \E i \in Jobs : tasks[i].pc = "done"
  /\ call' = [state |-> "returned",
              value |-> PromiseAll([i \in Jobs |-> tasks[i].value], settled)]
  /\ UNCHANGED <<form, userConfigs, options, tasks, settled, collectorVars, sortVars, jobVars, matVars>>

\* await Promise.all(fetchTasks) settles: it rejects as soon as a task
\* has rejected, and resolves when all tasks are resolved
Settle ==
  /\ call.state = "pending"
  /\ \/ \E i \in Jobs : tasks[i].pc = "rejected"
     \/ \A i \in Jobs : tasks[i].pc = "done"
  /\ call' = IF \E i \in Jobs : tasks[i].pc = "rejected"
             THEN [state |-> "raised"]
             ELSE [state |-> "returned",
                   value |-> PromiseAll([i \in Jobs |-> tasks[i].value], settled)]
  /\ UNCHANGED <<form, userConfigs, options, tasks, settled, collectorVars, sortVars, jobVars, matVars>>

Next ==
  \/ \E i \in Jobs : AttemptSucceeds(i)
  \/ \E i \in Jobs : AttemptFails(i)
  \/ \E i \in Jobs : HookReturns(i)
  \/ \E i \in Jobs : HookThrows(i)
  \/ \E i \in Jobs : CatchFailure(i)
  \/ Settle

(***************************************************************************)
(*  The latestTweetTime of one result, taken alone: sortCall holds the     *)
(*  tweets a successful attempt resolved to, and the latestTweetTime the   *)
(*  task computes from them.  The tweets carry the times the articles of   *)
(*  a timeline can have, in any order.                                     *)
(***************************************************************************)
PostTimes == { a.time : a \in Articles }

\* no result whose latestTweetTime is computed on its own
SortUnused == sortCall = [pc |-> "none", tweets |-> <<>>, latestTweetTime |-> Null]

\* const tweets = await fetchSingleUser(...); let latestTweetTime = null
SortStart ==
  sortCall \in [pc : {"tweets"},
                tweets : SeqsUpTo([userId : {"alice"}, time : PostTimes], MaxTweets),
                latestTweetTime : {Null}]

\* if (tweets.length > 0) { sort a copy; latestTweetTime = sortedTweets[0].time }
ComputeLatest ==
  /\ sortCall.pc = "tweets"
  /\ \E latest \in LatestTweetTimes(sortCall.tweets) :
       sortCall' = [sortCall EXCEPT !.pc = "result", !.latestTweetTime = latest]
  /\ UNCHANGED <<collectorVars, orchestratorVars, jobVars, matVars>>

SortNext == ComputeLatest

(***************************************************************************)
(*  The single-job path: fetchSingleUser of types.ts, whose attempts are   *)
(*  Collector runs (scrapeUserTweets), each on a page of its own.  job is   *)
(*  the state of the call: pc where it is, attempt and lastError its       *)
(*  locals, result what it returned or the error it threw; errors records  *)
(*  the errors of the attempts made, hookCalls the hook invocations,       *)
(*  discarded the number of posts the failed attempts had accumulated.     *)
(*  options is context.fetchOptions.                                       *)
(***************************************************************************)
\* no call of the retrying fetchSingleUser
JobUnused ==
  job = [pc |-> "none", attempt |-> 0, lastError |-> "none", result |-> NoResult,
         errors |-> <<>>, hookCalls |-> 0, discarded |-> 0]

\* the pages an attempt can be served: a newer and an older article
JobPages ==
  [timeline : SeqsUpTo({1, 3}, MaxJobTimeline), hi : {0}, live : {FALSE}, marker : {FALSE}]
  \cup {MissingPage}

\* the attempts go on with the locals of the attempt before
StartRunKeepsLocals(p) ==
  /\ cpc' = "goto"
  /\ page' = p
  /\ run' = run
  /\ pageOpen' = TRUE
  /\ cResult' = NoResult

\* scrapeUserTweets(context, userId, startTime) is called: a new page, and
\* new locals
StartRun(p) ==
  /\ cpc' = "goto"
  /\ page' = p
  /\ run' = InitRun
  /\ pageOpen' = TRUE
  /\ cResult' = NoResult

\* throw lastError ?? new Error(`Failed to fetch tweets for user ...`)
RaisedError(lastError) == IF lastError = "none" THEN "FailedToFetch" ELSE lastError

\* the error of the first attempt is thrown
RaisedFirstError(j) ==
  [j EXCEPT !.pc = "raised",
            !.result = [kind |-> "error",
                        error |-> IF j.errors = <<>> THEN "FailedToFetch" ELSE j.errors[1]]]

\* the loop is over: throw lastError
Raised(j) ==
  [j EXCEPT !.pc = "raised",
            !.result = [kind |-> "error", error |-> RaisedError(j.lastError)]]

\* the loop test before attempt n: call the Collector, or leave the loop
JobAttempt(j, n) ==
  IF LoopContinues(n, MaxRetries(options))
  THEN /\ job' = [j EXCEPT !.pc = "scraping", !.attempt = n]
       /\ \E p \in JobPages : StartRun(p)
  ELSE /\ job' = Raised([j EXCEPT !.attempt = n])
       /\ UNCHANGED <<cpc, page, run, pageOpen, cResult>>

\* fetchSingleUser(context, userId, startTime) up to its first await
JobStart ==
  /\ cArgs \in [userId : {"alice"}, startTime : StartTimes]
  /\ options \in [maxRetries : {Undefined} \cup MinRetriesOpt..MaxRetriesOpt, beforeRetry : BOOLEAN,
                  downloadImages : BOOLEAN]
  /\ form = "none" /\ userConfigs = <<>> /\ tasks = <<>> /\ settled = <<>>
  /\ call = [state |-> "none"]
  /\ IF LoopContinues(1, MaxRetries(options))
     THEN /\ job = [pc |-> "scraping", attempt |-> 1, lastError |-> "none",
                    result |-> NoResult, errors |-> <<>>, hookCalls |-> 0, discarded |-> 0]
          /\ cpc = "goto"
          /\ page \in JobPages
          /\ run = InitRun
          /\ pageOpen = TRUE
          /\ cResult = NoResult
     ELSE /\ job = Raised([pc |-> "scraping", attempt |-> 1, lastError |-> "none",
                           result |-> NoResult, errors |-> <<>>, hookCalls |-> 0, discarded |-> 0])
          /\ CollectorUnused

\* return await scrapeUserTweets(...): the run returned its tweets
AttemptReturns ==
  /\ job.pc = "scraping"
  /\ cpc = "returned"
  /\ job' = [job EXCEPT !.pc = "returned", !.result = cResult]
  /\ UNCHANGED <<collectorVars, orchestratorVars, sortVars, matVars>>

\* catch (error): lastError = error, then the hook or the next attempt
AttemptThrows ==
  /\ job.pc = "scraping"
  /\ cpc = "thrown"
  /\ LET j == [job EXCEPT !.lastError = cResult.error,
                          !.errors = Append(@, cResult.error),
                          !.discarded = @ + Len(run.tweets)]
     IN IF CallsHook(j.attempt, MaxRetries(options), options)
        THEN /\ job' = [j EXCEPT !.pc = "hook", !.hookCalls = @ + 1]
             /\ UNCHANGED <<cpc, page, run, pageOpen, cResult>>
        ELSE JobAttempt(j, j.attempt + 1)
  /\ UNCHANGED <<cArgs, orchestratorVars, sortVars, matVars>>

\* await beforeRetry(userId, attempt, lastError) resolves, or it rejects
\* and catch (hookError) logs it
JobHookDone ==
  /\ job.pc = "hook"
  /\ JobAttempt(job, job.attempt + 1)
  /\ UNCHANGED <<cArgs, orchestratorVars, sortVars, matVars>>

JobNext ==
  \/ CollectorNext
  \/ AttemptReturns
  \/ AttemptThrows
  \/ JobHookDone

(***************************************************************************)
(* The Materializer: transformTweetImages of common.ts.  mat is one call:  *)
(* its arguments (enabled is options.downloadImages), its position, the    *)
(* locals of downloadTweetsWithPage (t and k are the 1-based positions of  *)
(* the post and of the image at hand), and what the call did to the        *)
(* context and to the disk: pages opened and closed, directories made     *)
(* (userDirsMade counts the calls of mkdir for an author's directory),     *)
(* downloads attempted, the files written in order, and the image          *)
(* positions whose download and write succeeded.                           *)
(***************************************************************************)
MaxMatTweets == 2

MaxImages == 2

\* post times in milliseconds: two of the same second, and an unparseable one
MatTimes == {1000, 1999, BadTime}

\* Math.floor(Date.now() / 1000) at the time of a call
NowSeconds == {1, 7}

MatTweetInfos ==
  [userId : {"alice"}, time : MatTimes, imageUrls : { ImageUrls(n) : n \in 0..MaxImages }]

getImageExtension(imageUrl) == IF imageUrl.ext # "" THEN imageUrl.ext ELSE ".jpg"

\* `${timestampSeconds}-${index}${extension}`
createImageFilename(tweetTime, index, imageUrl, now) ==
  LET millis == GetTime(tweetTime)
      timestampSeconds == IF millis # NaN THEN millis \div 1000 ELSE now
  IN [seconds |-> timestampSeconds, ordinal |-> index, ext |-> getImageExtension(imageUrl)]

\* path.posix.join(tweet.userId, filename)
LocalRef(userId, filename) ==
  [kind |-> "local", userId |-> userId, seconds |-> filename.seconds,
   ordinal |-> filename.ordinal, ext |-> filename.ext]

MatUnused == mat = [pc |-> "none"]

MatStart ==
  mat \in [pc : {"start"}, enabled : BOOLEAN, tweets : SeqsUpTo(MatTweetInfos, MaxMatTweets),
           t : {1}, k : {1}, downloadedUrls : {<<>>}, transformed : {<<>>},
           pageOpen : {FALSE}, pagesOpened : {0}, pagesClosed : {0}, dirs : {{}},
           userDirsMade : {0},
           downloads : {0}, written : {<<>>}, saved : {{}}, result : {NoResult}]

MatStep(m) == mat' = m /\ UNCHANGED <<collectorVars, orchestratorVars, sortVars, jobVars>>

\* downloader.close() in the finally of transformTweetImages
ClosePage(m) == [m EXCEPT !.pageOpen = FALSE, !.pagesClosed = @ + 1]

\* the no-op downloader of a call without downloadImages
PassThroughMakesRoot ==
  /\ mat.pc = "start" /\ ~mat.enabled
  /\ MatStep([mat EXCEPT !.pc = "returned", !.dirs = @ \cup {"root"},
                         !.result = [tweets |-> mat.tweets]])

PassThrough ==
  /\ mat.pc = "start" /\ ~mat.enabled
  /\ MatStep([mat EXCEPT !.pc = "returned", !.result = [tweets |-> mat.tweets]])

MakeRoot ==
  /\ mat.pc = "start" /\ mat.enabled
  /\ MatStep([mat EXCEPT !.pc = "newPage", !.dirs = @ \cup {"root"}])

MakeRootFails ==
  /\ mat.pc = "start" /\ mat.enabled
  /\ MatStep([mat EXCEPT !.pc = "thrown", !.result = [error |-> "MkdirFailed"]])

\* context.newPage(); a rejection of goto('about:blank') is swallowed
OpenPage ==
  /\ mat.pc = "newPage"
  /\ MatStep([mat EXCEPT !.pc = "loop", !.pageOpen = TRUE, !.pagesOpened = @ + 1])

OpenPageFails ==
  /\ mat.pc = "newPage"
  /\ MatStep([mat EXCEPT !.pc = "thrown", !.result = [error |-> "NewPageFailed"]])

\* the author's directory is made before the images of the post are
\* looked at
NextTweetMakesDirFirst ==
  /\ mat.pc = "loop" /\ mat.t <= Len(mat.tweets)
  /\ LET tweet == mat.tweets[mat.t]
         m == [mat EXCEPT !.dirs = @ \cup {tweet.userId}, !.userDirsMade = @ + 1]
     IN IF Len(tweet.imageUrls) = 0
        THEN MatStep([m EXCEPT !.transformed = Append(@, tweet), !.t = @ + 1])
        ELSE MatStep([m EXCEPT !.pc = "images", !.k = 1, !.downloadedUrls = <<>>])

\* the head of the loop over the posts: a post without images is pushed as
\* it is, for another the author's directory is made
NextTweet ==
  /\ mat.pc = "loop" /\ mat.t <= Len(mat.tweets)
  /\ LET tweet == mat.tweets[mat.t]
     IN IF Len(tweet.imageUrls) = 0
        THEN MatStep([mat EXCEPT !.transformed = Append(@, tweet), !.t = @ + 1])
        ELSE MatStep([mat EXCEPT !.pc = "images", !.k = 1, !.downloadedUrls = <<>>,
                                 !.dirs = @ \cup {tweet.userId}, !.userDirsMade = @ + 1])

\* mkdir(userDir) rejects: outside the try of the images, so the call fails
UserDirFails ==
  /\ mat.pc = "loop" /\ mat.t <= Len(mat.tweets)
  /\ Len(mat.tweets[mat.t].imageUrls) > 0
  /\ MatStep(ClosePage([mat EXCEPT !.pc = "thrown", !.result = [error |-> "MkdirFailed"]]))

\* the end of the body of the loop over the images: entry is what was pushed
\* onto downloadedUrls; after the last image the post is pushed
AfterImage(m, entry) ==
  LET tweet == m.tweets[m.t]
      urls == Append(m.downloadedUrls, entry)
  IN IF m.k < Len(tweet.imageUrls)
     THEN [m EXCEPT !.downloadedUrls = urls, !.k = @ + 1]
     ELSE [m EXCEPT !.downloadedUrls = urls, !.k = @ + 1, !.pc = "loop", !.t = @ + 1,
                    !.transformed = Append(@, [tweet EXCEPT !.imageUrls = urls])]

ImageSaved ==
  /\ mat.pc = "images"
  /\ \E now \in NowSeconds :
       LET tweet == mat.tweets[mat.t]
           filename == createImageFilename(tweet.time, mat.k, tweet.imageUrls[mat.k], now)
           ref == LocalRef(tweet.userId, filename)
       IN MatStep(AfterImage([mat EXCEPT !.downloads = @ + 1,
                                         !.written = Append(@, ref),
                                         !.saved = @ \cup {<<mat.t, mat.k>>}], ref))

\* the catch of the image: the response is not ok, waitForResponse rejects
\* when awaited, or writeFile rejects
ImageFailsDropsEntry ==
  /\ mat.pc = "images"
  /\ LET m == AfterImage([mat EXCEPT !.downloads = @ + 1], mat.tweets[mat.t].imageUrls[mat.k])
     IN MatStep([m EXCEPT !.downloadedUrls = SubSeq(@, 1, Len(@) - 1)])

ImageFails ==
  /\ mat.pc = "images"
  /\ MatStep(AfterImage([mat EXCEPT !.downloads = @ + 1], mat.tweets[mat.t].imageUrls[mat.k]))

\* the request stalls: waitForResponse rejects at its timeout while
\* page.evaluate is still awaited, so the rejection has no handler yet.  A
\* host which tolerates unhandled rejections lets the later await catch it;
\* otherwise the runtime ends the process
ImageStalls ==
  /\ mat.pc = "images"
  /\ \/ MatStep(AfterImage([mat EXCEPT !.downloads = @ + 1],
                           mat.tweets[mat.t].imageUrls[mat.k]))
     \/ MatStep([mat EXCEPT !.downloads = @ + 1, !.pc = "crashed"])

MatReturn ==
  /\ mat.pc = "loop" /\ mat.t > Len(mat.tweets)
  /\ MatStep(ClosePage([mat EXCEPT !.pc = "returned", !.result = [tweets |-> mat.transformed]]))

MatNext ==
  \/ PassThrough
  \/ MakeRoot
  \/ MakeRootFails
  \/ OpenPage
  \/ OpenPageFails
  \/ NextTweet
  \/ UserDirFails
  \/ ImageSaved
  \/ ImageFails
  \/ ImageStalls
  \/ MatReturn

InitMat == CollectorUnused /\ OrchestratorUnused /\ SortUnused /\ JobUnused /\ MatStart

SpecMat == InitMat /\ [][MatNext]_vars

(***************************************************************************)
(* The two forms side by side: tasks[1] is the task of the per-call form   *)
(* (base.ts) and tasks[2] the task of the session form (types.ts), for the *)
(* same job and the same options; every outcome of a Collector call or of  *)
(* a hook call is given to both.                                           *)
(***************************************************************************)
FormOf(i) == IF i = 1 THEN "perCall" ELSE "session"

\* the task run on to where it next waits for the Collector or the hook:
\* in the session form the catch of fetchMultipleUser follows the throw of
\* fetchSingleUser with no await between them
ToSuspension(task, config) == IF task.pc = "failed" THEN Caught(task, config) ELSE task

FormsInit ==
  /\ form = "both"
  /\ \E config \in JobConfigs : userConfigs = <<config, config>>
  /\ options \in [maxRetries : {Undefined} \cup MinRetriesOpt..MaxRetriesOpt, beforeRetry : BOOLEAN]
  /\ tasks = [i \in 1..2 |->
                ToSuspension(BeginAttempt(NewTask(1), 1, userConfigs[i], options, FormOf(i)),
                             userConfigs[i])]
  /\ settled = <<>>
  /\ call = [state |-> "none"]

\* both tasks wait at pc and take a step: stepped[i] is task i after it
PairStep(pc, stepped) ==
  /\ \A i \in 1..2 : tasks[i].pc = pc
  /\ tasks' = [i \in 1..2 |-> ToSuspension(stepped[i], userConfigs[i])]
  /\ UNCHANGED <<form, userConfigs, options, settled, call,
                 collectorVars, sortVars, jobVars, matVars>>

PairSucceeds ==
  \E ids \in SeqsUpTo(FeedIds, MaxFeedLen) :
    LET tweets == ScrapeStatic(ids, userConfigs[1].userId, userConfigs[1].startTime) IN
    \E latest \in LatestTweetTimes(tweets) :
      PairStep("scraping",
               [i \in 1..2 |-> Succeeded(tasks[i], userConfigs[i], tweets, latest)])

PairFails ==
  \E error \in {"NavigationFailed", "WaitTimeout"} :
    PairStep("scraping",
             [i \in 1..2 |-> Failed(tasks[i], error, userConfigs[i], options, FormOf(i))])

PairHookReturns ==
  PairStep("hook",
           [i \in 1..2 |-> BeginAttempt(tasks[i], tasks[i].attempt + 1, userConfigs[i],
                                        options, FormOf(i))])

PairHookThrows ==
  PairStep("hook",
           [i \in 1..2 |-> AfterHookThrows(tasks[i], userConfigs[i], options, FormOf(i))])

FormsNext ==
  \/ PairSucceeds
  \/ PairFails
  \/ PairHookReturns
  \/ PairHookThrows

InitForms == CollectorUnused /\ FormsInit /\ SortUnused /\ JobUnused /\ MatUnused

SpecForms == InitForms /\ [][FormsNext]_vars

InitJob == JobStart /\ SortUnused /\ MatUnused

SpecJob == InitJob /\ [][JobNext]_vars

Init == CollectorUnused /\ OrchestratorInit /\ SortUnused /\ JobUnused /\ MatUnused

Spec == Init /\ [][Next]_vars

InitCollector == CollectorStart /\ OrchestratorUnused /\ SortUnused /\ JobUnused /\ MatUnused

SpecCollector == InitCollector /\ [][CollectorNext]_vars

\* the call on a live page, which shows nothing yet or three stale posts
CollectorStartLive ==
  /\ cpc = "goto"
  /\ cArgs \in [userId : {"alice"}, startTime : StartTimes]
  /\ page \in [timeline : {<<>>, <<3, 4, 5>>}, hi : {0}, live : {TRUE}, marker : {FALSE}]
             \cup {MissingPage}
  /\ run = InitRun
  /\ pageOpen = TRUE
  /\ cResult = NoResult

InitLive == CollectorStartLive /\ OrchestratorUnused /\ SortUnused /\ JobUnused /\ MatUnused

\* every awaited call of the run resolves or rejects in the end (goto and
\* waitForSelector carry a timeout, the others the protocol timeout)
SpecLive == InitLive /\ [][CollectorNext]_vars /\ WF_vars(CollectorNext)

InitLatest == CollectorUnused /\ OrchestratorUnused /\ SortStart /\ JobUnused /\ MatUnused

SpecLatest == InitLatest /\ [][SortNext]_vars

(***************************************************************************)
(* Properties of the Orchestrator.                                         *)
(***************************************************************************)
Returned == call.state = "returned"

\* C1: for every job list and every order in which the jobs complete,
\* fetchMultipleUser returns exactly one result per job, and result i has
\* the userId of job i.
C1_ResultsAligned ==
  Returned =>
    /\ Len(call.value) = Len(userConfigs)
    /\ \A i \in Jobs : call.value[i].userId = userConfigs[i].userId

\* two jobs of different users, the second one completed first
C1_Witness ==
  /\ Returned
  /\ Len(userConfigs) = 2
  /\ userConfigs[1].userId # userConfigs[2].userId
  /\ settled = <<2, 1>>

\* task i is suspended in an await: an attempt, a hook call, or (second
\* form) the rejection of fetchSingleUser on its way to the catch
InFlight(i) == tasks[i].pc \in {"scraping", "hook", "failed"}

\* C2: fetchMultipleUser never raises: whatever attempts and hook calls
\* fail, no task rejects, the pending call can always go on, and in the
\* returned array a job whose attempts all failed has the empty result.
C2_NeverRaises ==
  /\ call.state # "raised"
  /\ \A i \in Jobs : tasks[i].pc # "rejected"
  /\ call.state = "pending" => (ENABLED Settle \/ \E i \in Jobs : InFlight(i))
  /\ Returned =>
       \A i \in Jobs :
         ~tasks[i].succeeded => call.value[i] = EmptyResult(userConfigs[i].userId)

\* the call returned although every attempt of a job failed and its hook
\* threw
C2_Witness ==
  /\ Returned
  /\ \E i \in Jobs :
       /\ ~tasks[i].succeeded
       /\ tasks[i].attemptsMade >= 2
       /\ tasks[i].hookThrew

\* C3: a job whose attempts 1..maxRetries-1 failed and whose attempt
\* maxRetries succeeded has the posts of that attempt as its result, and
\* its hook was invoked exactly maxRetries-1 times.
C3_SuccessOnLastAttempt ==
  \A i \in Jobs :
    ( /\ tasks[i].pc = "done"
      /\ tasks[i].succeeded
      /\ tasks[i].attemptsMade = MaxRetries(options) )
    => /\ tasks[i].value.tweets = tasks[i].collected
       /\ tasks[i].value.userId = userConfigs[i].userId
       /\ options.beforeRetry => tasks[i].hookCalls = MaxRetries(options) - 1
       /\ Returned => call.value[i].tweets = tasks[i].collected

\* with the default of 3 attempts and a hook, the third attempt of a job
\* returned posts
C3_Witness ==
  /\ Returned
  /\ options = [maxRetries |-> Undefined, beforeRetry |-> TRUE]
  /\ \E i \in Jobs :
       /\ tasks[i].succeeded
       /\ tasks[i].attemptsMade = 3
       /\ tasks[i].hookCalls = 2
       /\ call.value[i].tweets # <<>>

\* C4: for a job whose attempts all fail exactly maxRetries attempts are
\* made (3 by default), the hook is invoked after every failure but the
\* last, and the result is {tweets: [], latestTweetTime: null}.
C4_AllAttemptsFail ==
  \A i \in Jobs :
    /\ tasks[i].pc = "hook" => tasks[i].attempt < MaxRetries(options)
    /\ ( /\ tasks[i].pc = "done"
         /\ ~tasks[i].succeeded
         /\ tasks[i].attemptsMade >= 1 )
       => /\ tasks[i].attemptsMade = MaxRetries(options)
          /\ options.maxRetries = Undefined => tasks[i].attemptsMade = 3
          /\ tasks[i].hookCalls = IF options.beforeRetry THEN MaxRetries(options) - 1 ELSE 0
          /\ tasks[i].value = EmptyResult(userConfigs[i].userId)

\* with the default and a hook, a job failed three times
C4_Witness ==
  /\ Returned
  /\ options = [maxRetries |-> Undefined, beforeRetry |-> TRUE]
  /\ \E i \in Jobs :
       /\ ~tasks[i].succeeded
       /\ tasks[i].attemptsMade = 3
       /\ tasks[i].hookCalls = 2
       /\ call.value[i] = EmptyResult(userConfigs[i].userId)

\* the result of a settled task as the outcomes of its Collector attempts
\* alone determine it
IsResultOfAttempts(i) ==
  IF tasks[i].succeeded
  THEN /\ tasks[i].value.userId = userConfigs[i].userId
       /\ tasks[i].value.tweets = tasks[i].collected
       /\ tasks[i].value.latestTweetTime \in LatestTweetTimes(tasks[i].collected)
  ELSE /\ tasks[i].value = EmptyResult(userConfigs[i].userId)
       /\ tasks[i].attemptsMade = MaxRetries(options)

\* C5: a failure of the beforeRetry hook never aborts the retry loop: the
\* attempt after the failed hook call is made, and the final result of the
\* job is the one its Collector attempts determine.
C5_HookFailureDoesNotAbort ==
  \A i \in Jobs :
    tasks[i].hookThrew =>
      /\ tasks[i].pc # "hook" => tasks[i].attemptsMade = tasks[i].hookCalls + 1
      /\ tasks[i].pc = "done" => IsResultOfAttempts(i)

\* a hook call of a job threw, and a later attempt of the job returned
\* posts
C5_Witness ==
  /\ Returned
  /\ \E i \in Jobs :
       /\ tasks[i].hookThrew
       /\ tasks[i].succeeded
       /\ call.value[i].tweets # <<>>

\* latest is the time of a post of tweets, and no post of tweets with a
\* parseable time is later
IsLatestOf(latest, tweets) ==
  /\ \E k \in DOMAIN tweets : tweets[k].time = latest
  /\ \A k \in DOMAIN tweets :
       GetTime(tweets[k].time) # NaN => Ge(GetTime(latest), GetTime(tweets[k].time))

\* C6: in every result latestTweetTime is the maximum time over the
\* result's posts, whatever their order, and null when there are no posts.
C6_LatestIsMax ==
  sortCall.pc = "result" =>
    IF sortCall.tweets = <<>>
    THEN sortCall.latestTweetTime = Null
    ELSE IsLatestOf(sortCall.latestTweetTime, sortCall.tweets)

\* C16: the call returns only when every job is in a terminal state: while
\* a job has an attempt or a hook call in flight, or another attempt to
\* make, the call is pending and has delivered nothing; the step that
\* returns finds every task resolved, as succeeded or with its attempts
\* used up, and delivers the results of all of them.
C16_ReturnsAfterAllJobs ==
  /\ [](call.state = "pending" => DOMAIN call = {"state"})
  /\ []((\E i \in Jobs : tasks[i].pc # "done") => call.state = "pending")
  /\ [](Returned =>
          \A i \in Jobs :
            /\ tasks[i].pc = "done"
            /\ tasks[i].succeeded \/ ~LoopContinues(tasks[i].attemptsMade + 1, MaxRetries(options))
            /\ call.value[i] = tasks[i].value)
  /\ [][ call.state' # call.state =>
          /\ call.state = "pending"
          /\ \A i \in Jobs : tasks[i].pc = "done" /\ tasks'[i] = tasks[i] ]_vars

\* the first job succeeded at once and settled first; the call returned
\* only after the second job had used up its three attempts
C16_Witness ==
  /\ Returned
  /\ Len(userConfigs) = 2
  /\ settled = <<1, 2>>
  /\ tasks[1].succeeded /\ tasks[1].attemptsMade = 1
  /\ ~tasks[2].succeeded /\ tasks[2].attemptsMade = 3 /\ tasks[2].hookCalls = 2

\* what task i has done, or its result, is the one its own outcomes
\* determine: the number k of the attempt at which its Collector
\* succeeded (k - 1 failures before), or its failure on every attempt
OwnOutcomesDetermine(i) ==
  LET t == tasks[i]
      hooks(failures) == IF options.beforeRetry /\ failures > 0
                         THEN (IF failures < MaxRetries(options) THEN failures
                               ELSE MaxRetries(options) - 1)
                         ELSE 0
  IN
  IF t.succeeded
  THEN /\ t.pc = "done"
       /\ t.attemptsMade <= MaxRetries(options)
       /\ t.hookCalls = hooks(t.attemptsMade - 1)
       /\ t.value.userId = userConfigs[i].userId
       /\ t.value.tweets = t.collected
       /\ t.value.latestTweetTime \in LatestTweetTimes(t.collected)
  ELSE IF t.pc = "done"
  THEN /\ t.attemptsMade = (IF MaxRetries(options) > 0 THEN MaxRetries(options) ELSE 0)
       /\ t.hookCalls = hooks(t.attemptsMade)
       /\ t.value = EmptyResult(userConfigs[i].userId)
  ELSE /\ t.attemptsMade <= (IF MaxRetries(options) > 0 THEN MaxRetries(options) ELSE 0)
       /\ t.hookCalls =
            hooks(IF t.pc = "scraping" THEN t.attemptsMade - 1 ELSE t.attemptsMade)

\* C17: the jobs of a call do not interfere: every step of the call is the
\* step of one job and leaves every other task as it is, and under every
\* interleaving the attempts, hook invocations and result of a job are
\* the ones its own Collector and hook outcomes determine.
C17_JobsDoNotInterfere ==
  /\ [](\A i \in Jobs : OwnOutcomesDetermine(i))
  /\ [][ \A i, k \in Jobs : (i # k /\ tasks'[i] # tasks[i]) => tasks'[k] = tasks[k] ]_vars

\* two jobs with the same configuration: the first failed on every attempt
\* and its hook threw, the second, interleaved with it, succeeded at once
\* with posts but settled last
C17_Witness ==
  /\ Returned
  /\ Len(userConfigs) = 2
  /\ userConfigs[1] = userConfigs[2]
  /\ settled = <<1, 2>>
  /\ ~tasks[1].succeeded /\ tasks[1].attemptsMade = 3 /\ tasks[1].hookThrew
  /\ tasks[2].succeeded /\ tasks[2].attemptsMade = 1 /\ tasks[2].hookCalls = 0
  /\ call.value[2].tweets # <<>>

\* C18: every attempt opens one page, so a task has opened as many pages
\* as it has made attempts; an attempt in flight works on the page it
\* opened itself, and no two attempts in flight have the same page.
C18_OnePagePerAttempt ==
  /\ \A i \in Jobs :
       /\ tasks[i].pagesOpened = tasks[i].attemptsMade
       /\ tasks[i].pc = "scraping" <=> tasks[i].page # NoPage
       /\ tasks[i].pc = "scraping" => tasks[i].page = NewPage(i, tasks[i].attempt)
  /\ \A i, k \in Jobs :
       (i # k /\ tasks[i].pc = "scraping" /\ tasks[k].pc = "scraping")
         => tasks[i].page # tasks[k].page

\* two jobs of the same user are both in a retry attempt at the same time
C18_Witness ==
  /\ Len(userConfigs) = 2
  /\ userConfigs[1] = userConfigs[2]
  /\ tasks[1].pc = "scraping" /\ tasks[1].attempt = 2
  /\ tasks[2].pc = "scraping" /\ tasks[2].attempt = 2

(***************************************************************************)
(* Properties of the Collector.                                            *)
(***************************************************************************)
\* how the run's boundary classifies an article
Kind(id, startTime) ==
  IF ~IsOld(ArticleOf(id), startTime) THEN "inScope"
  ELSE IF ArticleOf(id).isPinned THEN "pinnedOld"
  ELSE "stale"

\* the index in seq at which the stale streak of the whole run (counted
\* over seq from index k on, starting from streak n) first reaches 3;
\* 0 when it never does
RECURSIVE StreakEnd(_, _, _, _)
StreakEnd(seq, k, n, startTime) ==
  IF k > Len(seq) THEN 0
  ELSE IF Kind(seq[k], startTime) = "inScope" THEN StreakEnd(seq, k + 1, 0, startTime)
  ELSE IF Kind(seq[k], startTime) = "pinnedOld" THEN StreakEnd(seq, k + 1, n, startTime)
  ELSE IF n + 1 >= 3 THEN k
  ELSE StreakEnd(seq, k + 1, n + 1, startTime)

IsInjective(seq) == \A i, j \in DOMAIN seq : i # j => seq[i] # seq[j]

SeqRange(seq) == { seq[k] : k \in DOMAIN seq }

\* C7: within one run no id contributes more than one post to the output:
\* an id extracted again, in the same round or a later one, is processed
\* only the first time.
C7_NoIdTwice ==
  /\ Len(run.tweets) = Len(run.addedIds)
  /\ IsInjective(run.addedIds)
  /\ IsInjective(run.discovered)
  /\ SeqRange(run.discovered) = run.tweetIds

\* a run of several rounds has returned; the rendered articles held the
\* same in-scope id twice, and it is in the output
C7_Witness ==
  /\ cpc = "returned"
  /\ run.scrollAttempts >= 1
  /\ \E i, j \in 1..page.hi :
       /\ i < j
       /\ page.timeline[i] = page.timeline[j]
       /\ page.timeline[i] \in SeqRange(run.addedIds)

\* C8: the stale streak is a counter of the whole run: once the newly seen
\* candidates, in discovery order across all rounds, contain 3 consecutive
\* non-pinned posts older than the boundary with no in-scope post between
\* them, boundary-reached is set, the run has stopped, and nothing
\* discovered after the third one is in the output.
C8_StreakOfWholeRun ==
  LET p == StreakEnd(run.discovered, 1, 0, cArgs.startTime) IN
  p # 0 =>
    /\ run.hasReachedStartTime
    /\ cpc = "returned"
    /\ \A k \in (p + 1)..Len(run.discovered) :
         run.discovered[k] \notin SeqRange(run.addedIds)

\* C9: a pinned post older than the boundary is never in the output and
\* never changes the stale streak: newly seen candidates stale, pinned-old,
\* stale, stale in a row set boundary-reached.
C9_PinnedOldIsNeutral ==
  /\ \A id \in SeqRange(run.addedIds) : Kind(id, cArgs.startTime) # "pinnedOld"
  /\ \A k \in 1..(Len(run.discovered) - 3) :
       ( /\ Kind(run.discovered[k], cArgs.startTime) = "stale"
         /\ Kind(run.discovered[k + 1], cArgs.startTime) = "pinnedOld"
         /\ Kind(run.discovered[k + 2], cArgs.startTime) = "stale"
         /\ Kind(run.discovered[k + 3], cArgs.startTime) = "stale" )
       => run.hasReachedStartTime

\* C10: with a non-empty startTime every post in the output has a time at
\* or after it, and the post exactly on the boundary is in scope.
C10_OutputNotBeforeStart ==
  cArgs.startTime # EmptyStr =>
    /\ \A k \in DOMAIN run.tweets :
         Ge(GetTime(run.tweets[k].time), StartTimeMs(cArgs.startTime))
    /\ \A id \in run.tweetIds :
         ArticleOf(id).time = cArgs.startTime => id \in SeqRange(run.addedIds)

\* C11: a round that adds no post lengthens the idle streak by one and a
\* round that adds a post resets it to 0; the third idle round in a row
\* ends the run at once, which returns, not as an error, the posts
\* accumulated so far; the loop never goes on with a streak of 3.
C11_IdleLaw ==
  /\ [](cpc = "loop" => run.noNewTweetsCount < idleStop)
  /\ [][ (cpc = "loop" /\ cpc' # "thrown") =>
          LET added == Len(run'.tweets) - Len(run.tweets) IN
          /\ added > 0 => run'.noNewTweetsCount = 0
          /\ added = 0 => run'.noNewTweetsCount = run.noNewTweetsCount + 1
          /\ (added = 0 /\ run.noNewTweetsCount = 2) =>
               /\ cpc' = "returned"
               /\ cResult' = [kind |-> "tweets", tweets |-> run.tweets]
          /\ (cpc' = "returned" /\ ~run'.hasReachedStartTime
                /\ run'.scrollAttempts < maxScrollAttempts) =>
               /\ added = 0
               /\ run.noNewTweetsCount = 2 ]_vars

\* a run of five rounds returned a post: the first round was idle (a stale
\* post), the second added the post, the last three were idle
C11_Witness ==
  /\ cpc = "returned"
  /\ cResult.kind = "tweets"
  /\ cArgs.startTime = Boundary
  /\ run.discovered = <<3, 1>>
  /\ run.addedIds = <<1>>
  /\ run.scrollAttempts = 4
  /\ run.noNewTweetsCount = 3

\* the progress of a run: its position, and in the loop the scrolls counted
Progress ==
  CASE cpc = "goto" -> 0
    [] cpc = "check" -> 1
    [] cpc = "wait" -> 2
    [] cpc = "loop" -> 3 + run.scrollAttempts
    [] OTHER -> 3 + 100 + 1

\* a step of the run is due: the navigation can resolve, the pre-check
\* can go on, the readiness
\* wait can end, or the loop condition holds (Round has the guard of
\* RoundFails, and the scroll always has an outcome)
StepDue == ENABLED (GotoOk \/ MarkerQueryFails \/ LoadTimeout \/ RoundFails)

\* C12: a run always terminates, within 100 rounds: as long as it has not
\* returned or thrown a step of it is due, every step moves it forward on
\* a scale that ends with the run, a round is executed only while fewer
\* than 100 rounds went on to scroll, each round ends the run or scrolls
\* once, and the run returns only with boundary-reached set, the idle
\* streak at 3, or 100 scrolls counted.
C12_TerminatesWithinCap ==
  /\ [](cpc \notin {"returned", "thrown"} => StepDue)
  /\ [](Progress <= 3 + 100 + 1)
  /\ [][Progress' > Progress]_vars
  /\ [](cpc = "loop" => ~run.hasReachedStartTime /\ run.noNewTweetsCount < 3)
  /\ [](cpc = "returned" =>
          \/ run.hasReachedStartTime
          \/ run.noNewTweetsCount >= 3
          \/ run.scrollAttempts = 100)
  /\ [][ (cpc = "loop" /\ cpc' # "thrown") =>
          /\ run.scrollAttempts < 100
          /\ \/ cpc' = "returned" /\ run'.scrollAttempts = run.scrollAttempts
                /\ (run'.hasReachedStartTime \/ run'.noNewTweetsCount >= 3)
             \/ run'.scrollAttempts = run.scrollAttempts + 1 ]_vars

\* every one of 100 rounds added a new post, and the run returned the 100
\* posts at the cap
C12_Witness ==
  /\ cpc = "returned"
  /\ page.live
  /\ run.scrollAttempts = 100
  /\ Len(run.tweets) = 100
  /\ ~run.hasReachedStartTime
  /\ run.noNewTweetsCount = 0

C14_FailedRunLeavesNothing ==
  /\ [](cpc = "thrown" => cResult.kind = "error")
  /\ [](job.pc = "raised" => job.result.kind = "error")
  /\ [](job.pc \in {"scraping", "returned"} =>
          /\ run.tweetIds \subseteq SeqRange(Rendered(page))
          /\ Len(run.tweets) = Len(run.addedIds)
          /\ SeqRange(run.addedIds) \subseteq run.tweetIds)
  /\ [](job.pc = "returned" => job.result = [kind |-> "tweets", tweets |-> run.tweets])
  /\ [][ (job'.pc = "scraping" /\ job'.attempt # job.attempt) =>
          /\ run' = InitRun
          /\ page'.hi = 0
          /\ pageOpen'
          /\ cResult' = NoResult ]_vars

\* the first attempt failed in the loop with posts accumulated, and the
\* second attempt returned fewer posts than that
C14_Witness ==
  /\ job.pc = "returned"
  /\ job.attempt = 2
  /\ job.errors = <<"RenderingFailed">>
  /\ job.discarded >= 1
  /\ job.result.tweets # <<>>
  /\ Len(job.result.tweets) < job.discarded

\* C15: the single-job path raises only when all maxRetries attempts have
\* failed, and then raises the error of the last attempt; it returns when
\* an attempt succeeds, before the attempts are used up or with the last
\* one, and then returns the posts of that attempt and raises nothing.
C15_RaisesLastError ==
  /\ job.pc = "raised" =>
       /\ Len(job.errors) = (IF MaxRetries(options) > 0 THEN MaxRetries(options) ELSE 0)
       /\ job.errors # <<>> =>
            job.result = [kind |-> "error", error |-> job.errors[Len(job.errors)]]
  /\ job.pc = "returned" =>
       /\ Len(job.errors) = job.attempt - 1
       /\ job.attempt <= MaxRetries(options)
       /\ cpc = "returned"
       /\ job.result = [kind |-> "tweets", tweets |-> run.tweets]
  /\ job.pc \in {"scraping", "hook"} =>
       /\ job.result = NoResult
       /\ job.attempt <= MaxRetries(options)
       /\ Len(job.errors) = (IF job.pc = "hook" THEN job.attempt ELSE job.attempt - 1)

\* three attempts failed, each with another error, and the job raised the
\* third error
C15_Witness ==
  /\ job.pc = "raised"
  /\ job.errors = <<"NavigationFailed", "RenderingFailed", "WaitTimeout">>
  /\ job.result = [kind |-> "error", error |-> "WaitTimeout"]

(***************************************************************************)
(* Properties of the Materializer.                                         *)
(***************************************************************************)

\* C19: with downloadImages disabled, transformTweetImages returns the input
\* sequence as it is (same posts, same order, same image references) and
\* opens no page, makes no directory and attempts no download.
C19_DisabledPassThrough ==
  ~mat.enabled =>
    /\ mat.pc \in {"start", "returned"}
    /\ mat.pagesOpened = 0 /\ ~mat.pageOpen
    /\ mat.dirs = {}
    /\ mat.downloads = 0 /\ mat.written = <<>>
    /\ mat.pc = "returned" => mat.result = [tweets |-> mat.tweets]

\* C19: a disabled call on two posts, one of them with images, has returned.
C19_Witness ==
  /\ ~mat.enabled /\ mat.pc = "returned"
  /\ Len(mat.tweets) = 2
  /\ \E t \in 1..2 : Len(mat.tweets[t].imageUrls) > 0

\* the entry the claim asks for at image position j of post t
ClaimedEntry(t, j) ==
  LET tweet == mat.tweets[t]
      url == tweet.imageUrls[j]
  IN IF <<t, j>> \in mat.saved
     THEN { [kind |-> "local", userId |-> tweet.userId, seconds |-> sec, ordinal |-> j,
             ext |-> IF url.ext # "" THEN url.ext ELSE ".jpg"] :
            sec \in IF tweet.time # BadTime THEN {tweet.time \div 1000} ELSE NowSeconds }
     ELSE {url}

\* the call ended after it began on the images of a post
EndedOnImages == mat.pc \in {"returned", "crashed"}

\* C20: with downloadImages enabled, a call that got to its posts returns
\* them all, each with as many image entries as it had, the entry at
\* position j being the local reference <userId>/<epochSeconds>-<j><ext>
\* when the download and write of that image succeeded and the original
\* remote reference when it failed; no failure of an image drops an entry,
\* changes a sibling's entry or ends the call before the remaining images
\* and posts were handled.
C20_ImagesFallBack ==
  (mat.enabled /\ EndedOnImages) =>
    /\ mat.pc = "returned"
    /\ Len(mat.result.tweets) = Len(mat.tweets)
    /\ \A t \in 1..Len(mat.tweets) :
         /\ mat.result.tweets[t].userId = mat.tweets[t].userId
         /\ mat.result.tweets[t].time = mat.tweets[t].time
         /\ Len(mat.result.tweets[t].imageUrls) = Len(mat.tweets[t].imageUrls)
         /\ \A j \in 1..Len(mat.tweets[t].imageUrls) :
              mat.result.tweets[t].imageUrls[j] \in ClaimedEntry(t, j)

\* the call is over: it returned, it threw, or the process ended under it
MatEnded == mat.pc \in {"returned", "thrown", "crashed"}

\* C21: an enabled call opens one page, never a second, has it open at every
\* image download, and has closed it exactly once when the call is over,
\* whether it returned, images failed, or the call itself failed; a call
\* that returned has opened one.
C21_OnePageClosedOnce ==
  mat.enabled =>
    /\ mat.pagesOpened <= 1
    /\ mat.pc = "images" => (mat.pageOpen /\ mat.pagesOpened = 1)
    /\ mat.pc = "returned" => mat.pagesOpened = 1
    /\ MatEnded => (~mat.pageOpen /\ mat.pagesClosed = mat.pagesOpened)

(***************************************************************************)
(* Properties of fetchSingleUser with the image options of the context.    *)
(***************************************************************************)

\* the image downloads a fetchSingleUser call attempted and saw fail:
\* scrapeUserTweets pushes tweet.imageUrls as extracted and returns, with no
\* call of the downloader
JobFailedDownloads == {}

\* C22: with downloadImages enabled on the context every image entry of the
\* posts fetchSingleUser returns is a local path <userId>/<timestamp>-<index><ext>,
\* but for the images whose download failed; with it off the entries are
\* the remote URLs of the page.
C22_ReturnsLocalPaths ==
  job.pc = "returned" =>
    \A k \in 1..Len(job.result.tweets) :
      LET tweet == job.result.tweets[k] IN
      \A j \in 1..Len(tweet.imageUrls) :
        IF options.downloadImages
        THEN \/ /\ tweet.imageUrls[j].kind = "local"
                /\ tweet.imageUrls[j].userId = tweet.userId
                /\ tweet.imageUrls[j].ordinal = j
             \/ <<k, j>> \in JobFailedDownloads
        ELSE tweet.imageUrls[j].kind = "remote"

(***************************************************************************)
(* Properties of the two forms of the Orchestrator.                        *)
(***************************************************************************)

\* what a caller and the hook can see of a task: where it stands, the
\* attempts it made, the hook calls with their arguments, and its result
Observed(task) ==
  [pc |-> task.pc, attempt |-> task.attempt, attemptsMade |-> task.attemptsMade,
   hookCalls |-> task.hookCalls, hookArgs |-> task.hookArgs,
   succeeded |-> task.succeeded, value |-> task.value]

\* C23: given the same job, the same maxRetries and hook and the same
\* outcomes of the Collector and of the hook, the per-call form and the
\* session form make the same attempts and the same hook calls with the
\* same arguments, and give the same result.
C23_FormsAgree == Observed(tasks[1]) = Observed(tasks[2])

\* C23: both forms gave up after a failed attempt, a hook call and a
\* second failed attempt.
C23_Witness ==
  /\ \A i \in 1..2 : tasks[i].pc = "done" /\ ~tasks[i].succeeded
  /\ tasks[2].attemptsMade = 2
  /\ Len(tasks[2].hookArgs) = 1

(***************************************************************************)
(* Further properties of the Collector.                                    *)
(***************************************************************************)

\* the elements of seq that are in S, in the order of seq
Restrict(seq, S) ==
  LET InS(x) == x \in S IN SelectSeq(seq, InS)

\* the first place of x in seq
FirstAt(seq, x) == CHOOSE k \in DOMAIN seq : seq[k] = x /\ \A j \in 1..(k - 1) : seq[j] # x

\* the output lists the appended posts in the order of their discovery
InDiscoveryOrder ==
  /\ Len(run.tweets) = Len(run.addedIds)
  /\ run.addedIds = Restrict(run.discovered, { run.addedIds[k] : k \in DOMAIN run.addedIds })
  /\ \A k \in DOMAIN run.tweets : run.tweets[k].time = ArticleOf(run.addedIds[k]).time

\* the round that set boundary-reached stopped at the candidate that did
\* it: that one is stale and not pinned, and no candidate behind it that
\* was new to the run was taken into the seen-id set or the output
StoppedAtThirdStale ==
  LET c == Rendered(page)
      s == run'.discovered[Len(run'.discovered)]
      p == FirstAt(c, s)
  IN /\ Len(run'.discovered) > Len(run.discovered)
     /\ IsOld(ArticleOf(s), cArgs.startTime) /\ ~ArticleOf(s).isPinned
     /\ \A k \in (p + 1)..Len(c) :
          (c[k] \notin run.tweetIds /\ \A j \in 1..p : c[j] # c[k]) =>
            (c[k] \notin run'.tweetIds /\ \A a \in DOMAIN run'.addedIds : run'.addedIds[a] # c[k])
     /\ cpc' = "returned" /\ cResult'.tweets = run'.tweets

\* C24: the output of a run lists the posts in discovery order, never
\* sorted by time, and once the third consecutive stale post of a round
\* sets boundary-reached no later candidate of that round is processed or
\* appended, even one that is in scope.
C24_DiscoveryOrderAndEarlyExit ==
  [][ /\ InDiscoveryOrder'
      /\ (~run.hasReachedStartTime /\ run'.hasReachedStartTime) => StoppedAtThirdStale ]_vars

\* C24: the example page, rendered whole in the first round: the run
\* returned its first two posts, the older one first, and never took up
\* the sixth.
C24_Witness ==
  /\ page.timeline = ExampleTimeline /\ page.hi = Len(ExampleTimeline)
  /\ cArgs.startTime = Boundary
  /\ cpc = "returned" /\ run.scrollAttempts = 0 /\ run.hasReachedStartTime
  /\ run.addedIds = <<2, 1>>
  /\ Lt(GetTime(run.tweets[1].time), GetTime(run.tweets[2].time))
  /\ LiveId(1) \notin run.tweetIds

\* article i is no valid candidate of the run: it has no permalink, no
\* link to the target user, or no time that parses
Invalid(i) ==
  \/ ~HasStatusLink(i) \/ ~HasUserLink(i, cArgs.userId) \/ ~HasTimeElement(i)
  \/ GetTime(ArticleOf(i).time) = NaN

\* the valid candidates among the rendered articles, in page order
ValidRendered ==
  LET Valid(i) == ~Invalid(i) IN SelectSeq(Rendered(page), Valid)

\* C25: a candidate without a permalink id, without a link to the target
\* user or with a time that does not parse is skipped silently: it is never
\* appended or taken into the seen-id set, a round leaves the run as it
\* would be without such candidates on the page, and does not fail.
C25_InvalidSkipped ==
  [][ (cpc = "loop" /\ run' # run) =>
        /\ \A i \in run'.tweetIds : ~Invalid(i)
        /\ \A k \in DOMAIN run'.addedIds : ~Invalid(run'.addedIds[k])
        /\ run' = ProcessRound(run, Extract(ValidRendered, cArgs.userId), cArgs.startTime).run
        /\ cpc' # "thrown" ]_vars

(***************************************************************************)
(* Further properties of the retry loop, in both forms (SpecForms).        *)
(***************************************************************************)

\* the hook calls a task with n failed attempts behind it has made: one
\* per failure, with the user, the number of the attempt and its error
HookCallsFor(task, config, n) == [k \in 1..n |-> <<config.userId, k, task.errors[k]>>]

\* C26: with a hook configured, every attempt n+1 of a job comes after
\* exactly one call beforeRetry(userId, n, error of attempt n) and starts
\* only when that call has completed, by returning or by failing; the
\* attempts of a job never overlap.
C26_HookBeforeEveryRetry ==
  [][ options.beforeRetry =>
        \A i \in 1..2 :
          /\ tasks'[i].pc = "scraping" =>
               tasks'[i].hookArgs = HookCallsFor(tasks'[i], userConfigs[i], tasks'[i].attempt - 1)
          /\ tasks'[i].pc = "hook" =>
               tasks'[i].hookArgs = HookCallsFor(tasks'[i], userConfigs[i], tasks'[i].attempt)
          /\ tasks'[i].attemptsMade # tasks[i].attemptsMade =>
               /\ tasks[i].pc = "hook"
               /\ tasks'[i].attemptsMade = tasks[i].attemptsMade + 1
               /\ tasks'[i].attempt = tasks[i].attempt + 1 ]_vars

\* C26: the third attempt of both tasks runs, after two failures with
\* different errors and two hook calls, one of which failed.
C26_Witness ==
  /\ options.beforeRetry
  /\ \A i \in 1..2 :
       /\ tasks[i].pc = "scraping" /\ tasks[i].attempt = 3
       /\ tasks[i].errors = <<"NavigationFailed", "WaitTimeout">>
       /\ Len(tasks[i].hookArgs) = 2
       /\ tasks[i].hookThrew

\* C27: a successful attempt ends its job: the task is done with the tweets
\* of that attempt, has made as many attempts as the number of the
\* successful one and one hook call per failure before it (none without a
\* hook), and nothing happens to it afterwards, also when the attempt
\* returned no posts.
C27_SuccessIsTerminal ==
  [][ \A i \in DOMAIN tasks' :
        /\ tasks'[i].succeeded =>
             /\ tasks'[i].pc = "done"
             /\ tasks'[i].value.tweets = tasks'[i].collected
             /\ tasks'[i].attemptsMade = tasks'[i].attempt
             /\ tasks'[i].hookCalls =
                  IF options.beforeRetry THEN tasks'[i].attempt - 1 ELSE 0
        /\ tasks[i].succeeded => tasks'[i] = tasks[i] ]_vars

\* C27: with a hook configured, a job whose first attempt returned no posts
\* made one attempt and no hook call, and the call has returned after the
\* other job went through a retry.
C27_Witness ==
  /\ options.beforeRetry /\ call.state = "returned"
  /\ \E i, k \in Jobs :
       /\ tasks[i].succeeded /\ tasks[i].collected = <<>>
       /\ tasks[i].attemptsMade = 1 /\ tasks[i].hookCalls = 0
       /\ tasks[k].attemptsMade > 1

\* the newly seen candidates of the run but the pinned old ones, in
\* discovery order
NotPinnedOld(seq, startTime) ==
  LET Counts(id) == Kind(id, startTime) # "pinnedOld" IN SelectSeq(seq, Counts)

\* the last three of them are stale
EndsWithThreeStale(seq, startTime) ==
  LET d == NotPinnedOld(seq, startTime) IN
  /\ Len(d) >= 3
  /\ \A k \in (Len(d) - 2)..Len(d) : Kind(d[k], startTime) = "stale"

\* C28: a newly seen post in scope resets the stale streak and a candidate
\* seen before leaves it as it is: boundary-reached is set only when the
\* last three newly seen non-pinned posts are stale, with no newly seen
\* post in scope between them, and a round whose newly seen candidates
\* hold three such posts in a row, whatever seen candidates lie between
\* them, sets it.
C28_StaleStreakLaw ==
  [][ (cpc = "loop" /\ run' # run) =>
        LET new == SubSeq(run'.discovered, Len(run.discovered) + 1, Len(run'.discovered)) IN
        /\ run'.hasReachedStartTime => EndsWithThreeStale(run'.discovered, cArgs.startTime)
        /\ ~run'.hasReachedStartTime => StreakEnd(new, 1, 0, cArgs.startTime) = 0 ]_vars

\* C28: the first round found stale, stale, in scope, stale, and the run
\* goes on.
C28_Witness ==
  /\ cArgs.startTime = Boundary
  /\ cpc = "loop" /\ run.scrollAttempts = 1 /\ ~run.hasReachedStartTime
  /\ run.discovered = <<3, 4, 1, 5>>

\* the newly seen candidates of a round, and the posts it appended
FoundInRound == Len(run'.discovered) - Len(run.discovered)

AddedInRound == Len(run'.addedIds) - Len(run.addedIds)

\* C29 as stated: a round that discovers a candidate not seen before does
\* not lengthen the idle streak, also when the candidate is out of scope
\* and is not appended.
C29_DiscoveryKeepsIdleStreak ==
  [][ (cpc = "loop" /\ FoundInRound > 0) =>
        run'.noNewTweetsCount # run.noNewTweetsCount + 1 ]_vars

\* C29 as amended: the idle streak counts the rounds that append no post.
\* A round whose newly seen candidates are all out of scope (stale or
\* pinned and old) lengthens it by one like a round that sees nothing
\* new, and only a round that appends a post does not lengthen it.
C29_IdleCountsRoundsWithoutAppend ==
  [][ (cpc = "loop" /\ run' # run) =>
        /\ (FoundInRound > 0 /\ AddedInRound = 0) =>
             run'.noNewTweetsCount = run.noNewTweetsCount + 1
        /\ run'.noNewTweetsCount # run.noNewTweetsCount + 1 => AddedInRound > 0 ]_vars

\* C29: the first round discovered a stale post and a pinned old one,
\* appended neither, and the idle streak is 1.
C29_Witness ==
  /\ cArgs.startTime = Boundary
  /\ cpc = "loop" /\ run.scrollAttempts = 1
  /\ run.discovered = <<3, 6>> /\ run.addedIds = <<>>
  /\ run.noNewTweetsCount = 1

\* the fields of a post other than its image list
NonImageFields(tweet) == [userId |-> tweet.userId, time |-> tweet.time]

\* the number of images of the posts of seq, and of its posts with images
RECURSIVE ImageCount(_)
ImageCount(seq) ==
  IF seq = <<>> THEN 0 ELSE Len(Head(seq).imageUrls) + ImageCount(Tail(seq))

RECURSIVE WithImages(_)
WithImages(seq) ==
  IF seq = <<>> THEN 0
  ELSE (IF Len(Head(seq).imageUrls) > 0 THEN 1 ELSE 0) + WithImages(Tail(seq))

\* C30: an enabled call that returns gives as many posts as it got, in
\* their order, each with its non-image fields and an image list of the
\* same length whose entry j stands for image j; a post without images is
\* returned as it is, and the call attempted one download per image and one
\* mkdir of an author directory per post with images, none for the others;
\* the input is never changed.
C30_ShapePreserved ==
  [][ /\ mat'.tweets = mat.tweets
      /\ (mat'.enabled /\ mat'.pc = "returned") =>
           LET in == mat'.tweets
               out == mat'.result.tweets
           IN /\ Len(out) = Len(in)
              /\ \A t \in DOMAIN in :
                   /\ NonImageFields(out[t]) = NonImageFields(in[t])
                   /\ DOMAIN out[t] = DOMAIN in[t]
                   /\ Len(out[t].imageUrls) = Len(in[t].imageUrls)
                   /\ \A j \in DOMAIN in[t].imageUrls :
                        \/ out[t].imageUrls[j] = in[t].imageUrls[j]
                        \/ /\ out[t].imageUrls[j].kind = "local"
                           /\ out[t].imageUrls[j].ordinal = j
                           /\ out[t].imageUrls[j].ext = getImageExtension(in[t].imageUrls[j])
                   /\ Len(in[t].imageUrls) = 0 => out[t] = in[t]
              /\ mat'.downloads = ImageCount(in)
              /\ mat'.userDirsMade = WithImages(in) ]_vars

\* C30: an enabled call returned two posts, the first without images and
\* the second with two, of which one was saved.
C30_Witness ==
  /\ mat.enabled /\ mat.pc = "returned"
  /\ Len(mat.tweets) = 2
  /\ Len(mat.tweets[1].imageUrls) = 0 /\ Len(mat.tweets[2].imageUrls) = 2
  /\ mat.saved = {<<2, 1>>}
  /\ mat.userDirsMade = 1

\* C31: every page a Collector run opened is closed by the time the run
\* returns or throws, whichever step failed, the viewport setup right after
\* the page is opened included.
C31_PageClosedAtEnd == cpc \in {"returned", "thrown"} => ~pageOpen


\* C32: within one run of transformTweetImages no two downloaded images are
\* written to the same local path: the images saved for distinct (post,
\* image position) pairs have distinct <userId>/<epochSeconds>-<ordinal><ext>
\* references, two posts of one author published in the same second
\* included.
C32_NoPathTwice ==
  /\ IsInjective(mat.written)
  /\ Len(mat.written) = Cardinality(mat.saved)

\* the stale streak the for loop of the next round ends with
NextRoundStreak ==
  ForEachTweet(run, [addedCount |-> 0, nonPinnedOldTweetCount |-> 0],
               Extract(Rendered(page), cArgs.userId), 1,
               cArgs.startTime).loc.nonPinnedOldTweetCount

\* C33: with an empty startTime no time filtering is applied: every newly
\* seen candidate the extraction yields is appended whatever its timestamp,
\* the stale streak of a round never leaves 0 and boundary-reached is never
\* set, so a run returns only with the idle streak at 3 or at the round cap.
C33_NoBoundaryNoFilter ==
  cArgs.startTime = EmptyStr =>
    /\ ~run.hasReachedStartTime
    /\ run.addedIds = run.discovered
    /\ Len(run.tweets) = Len(run.discovered)
    /\ (cpc = "loop" /\ LoopGuard(run)) => NextRoundStreak = 0
    /\ cpc = "returned" =>
         \/ run.noNewTweetsCount >= idleStop
         \/ run.scrollAttempts >= maxScrollAttempts

\* a run without a start time appended the three posts older than the
\* other runs' boundary that its page showed first, went on, and returned
\* at the round cap
C33_Witness ==
  /\ cArgs.startTime = EmptyStr
  /\ cpc = "returned"
  /\ Len(run.addedIds) >= 3
  /\ SubSeq(run.addedIds, 1, 3) = <<3, 4, 5>>
  /\ \A k \in 1..3 : Lt(GetTime(run.tweets[k].time), GetTime(Boundary))
  /\ run.scrollAttempts = maxScrollAttempts
  /\ run.noNewTweetsCount < idleStop

\* C34: with maxRetries <= 0 no job makes a Collector attempt or calls the
\* hook, and no error of an attempt exists; fetchMultipleUser returns one
\* {tweets: [], latestTweetTime: null} per job in input order; in the
\* session form every job got there through fetchSingleUser raising, with
\* no lastError, the error it makes itself.
C34_NoAttemptWithoutRetries ==
  options.maxRetries \in MinRetriesOpt..0 =>
    /\ \A i \in Jobs :
         /\ tasks[i].attemptsMade = 0
         /\ tasks[i].pagesOpened = 0
         /\ tasks[i].page = NoPage
         /\ tasks[i].hookCalls = 0
         /\ tasks[i].errors = <<>>
         /\ tasks[i].lastError = "none"
         /\ ~tasks[i].succeeded
         /\ tasks[i].pc \in {"failed", "done"}
         /\ tasks[i].pc = "done" => tasks[i].value = EmptyResult(userConfigs[i].userId)
         /\ form = "perCall" => tasks[i].pc = "done"
         /\ form = "session" =>
              /\ tasks[i].pc = "done" <=> i \in SeqRange(settled)
              /\ RaisedError(tasks[i].lastError) = "FailedToFetch"
    /\ Returned =>
         /\ DOMAIN call.value = Jobs
         /\ \A i \in Jobs : call.value[i] = EmptyResult(userConfigs[i].userId)

\* the session form was called with a maxRetries below 1 for two jobs:
\* fetchSingleUser raised for the second job first, then for the first,
\* and the call returned the two empty results in input order
C34_Witness ==
  /\ Returned
  /\ form = "session"
  /\ options.maxRetries \in MinRetriesOpt..0
  /\ Len(userConfigs) = 2
  /\ userConfigs[1] # userConfigs[2]
  /\ settled = <<2, 1>>
  /\ call.value = [i \in Jobs |-> EmptyResult(userConfigs[i].userId)]

====
